---- MODULE Spec2Model ----
(***************************************************************************)
(* Model of the staging-file rotation of the file exporter                 *)
(* (src/fileexporter.go): one fileExporter shared by the traces, metrics   *)
(* and logs pipelines (src/factory.go), its mutex, its single              *)
(* currentEventCount, and the files it creates, appends to and renames.    *)
(*                                                                         *)
(* A file name is a record [stamp, ext]: the staging file ".inproc" has no *)
(* stamp; a finalized file is "<stamp>.json" or "<stamp>.proto".  A file's *)
(* content is a sequence of tokens: the newline written between batches    *)
(* and the bytes of one batch, each with its size in bytes.                *)
(***************************************************************************)
EXTENDS Integers, Sequences, FiniteSets, TLC

\* ------------------------------------------------------------- bounds
MaxBatches == 4
MaxTime == 6
TicksPerSecond == 2

Procs == {"p1", "p2"}
Dirs == {"traces", "metrics"}
\* the sizes in bytes of the batches submitted under a size limit; under a
\* count limit no size is ever read, and one size stands for all
KbBatchSizes == {6143, 12288}
CountBatchSizes == {1023}
\* the validated configurations the exporter is built from
Configs ==
  { [fileSizeKb |-> 10, eventsPerFile |-> 0, format |-> "json"],
    [fileSizeKb |-> 0, eventsPerFile |-> 1, format |-> "protobuf"],
    [fileSizeKb |-> 0, eventsPerFile |-> 2, format |-> "json"],
    [fileSizeKb |-> 0, eventsPerFile |-> 3, format |-> "protobuf"] }

\* ------------------------------------------------------------- program constants
ext == "inproc"
Json == "json"
Protobuf == "protobuf"
KB == 1024

NoProc == "none"
NoFile == <<[id |-> -1, sz |-> 0]>>
NoArg == [dir |-> "", id |-> 0, sz |-> 0]
NoEntry == [count |-> 0, staging |-> NoFile, finals |-> 0]

VARIABLES
  fileSizeKb,          \* fileExporter.fileSizeKb
  eventsPerFile,       \* fileExporter.eventsPerFile
  format,              \* fileExporter.format
  currentEventCount,   \* fileExporter.currentEventCount
  mutex,               \* fileExporter.mutex: the process holding it, or NoProc
  dirs,                \* the target directories that exist on disk
  fs,                  \* fs[d]: file name -> content, for the files of directory d
  now,                 \* the wall clock, in ticks
  pc,                  \* pc[p]: where caller p is in exportAsLine
  arg,                 \* arg[p]: the batch and export type of p's call
  entry,               \* entry[p]: the counter, the staging file and the number of
                       \* finalized files when p acquired the lock
  failed,              \* failed[p]: the steps of p's call that failed
  err,                 \* err[p]: whether p's call returns an error
  nextId,              \* the number of calls that acquired the lock, plus one
  crashed,             \* the process died of a run-time panic
  accepted,            \* accepted[d]: ids of the batches whose call returned nil
  finalized,           \* finalized[d]: every rename done, in order: [name, content]
  seen,                \* seen[d]: currentEventCount when the last call for d returned
  cfg                  \* the Config the engine is built from, and how far it got

config == <<fileSizeKb, eventsPerFile, format, cfg>>
disk == <<dirs, fs>>
hist == <<accepted, finalized, seen>>
vars == <<fileSizeKb, eventsPerFile, format, currentEventCount, mutex, dirs, fs,
          now, pc, arg, entry, failed, err, nextId, crashed,
          accepted, finalized, seen, cfg>>

\* ------------------------------------------------------------- files
NL == [id |-> 0, sz |-> 1]
Tok(a) == [id |-> a.id, sz |-> a.sz]

RECURSIVE Size(_)
Size(c) == IF c = <<>> THEN 0 ELSE Head(c).sz + Size(Tail(c))

\* the ids of the batches a content holds, in order
RECURSIVE Batches(_)
Batches(c) ==
  IF c = <<>> THEN <<>>
  ELSE IF Head(c).id > 0 THEN <<Head(c).id>> \o Batches(Tail(c))
       ELSE Batches(Tail(c))

\* fmt.Sprintf(".%s", ext): the staging file's name carries no time stamp
InprocName == [stamp |-> -1, ext |-> ext]
HasMarker(n) == n.ext = ext

\* filepath.Glob(filepath.Join(path, ".inproc")): a pattern without wildcard
Glob(d) == IF d \in dirs THEN {n \in DOMAIN fs[d] : n = InprocName} ELSE {}

\* time.Time.Format(timeFormat): in the layout "2006_01_02_15_04_05_999999999"
\* the nines follow '_', not '.' or ',', so they are literal text and the
\* stamp carries the time to the second only
Format(t) == t \div TicksPerSecond

\* the extension of a finalized file
NewEx == IF format = Json THEN "json" ELSE "proto"

\* a finalized name that keeps the staging marker as its extension
FinalNameKeepsMarker(f, t) == [stamp |-> Format(t), ext |-> ext]

\* strings.Replace(f, ".inproc", fmt.Sprintf("%s.%s", t, newex), 1)
FinalName(f, t) == [stamp |-> Format(t), ext |-> NewEx]

\* directory d with file n created or truncated to content c
Put(d, n, c) ==
  [fs EXCEPT ![d] = [m \in DOMAIN fs[d] \cup {n} |-> IF m = n THEN c ELSE fs[d][m]]]

\* os.Rename(f, fnew): fnew is replaced when it exists
Renamed(d, f, fnew) ==
  [fs EXCEPT ![d] = [m \in (DOMAIN fs[d] \ {f}) \cup {fnew} |->
                       IF m = fnew THEN fs[d][f] ELSE fs[d][m]]]

\* os.OpenFile(f, O_APPEND|O_CREATE|O_WRONLY) followed by a write of tok
Appended(d, f, tok) ==
  Put(d, f, IF f \in DOMAIN fs[d] THEN Append(fs[d][f], tok) ELSE <<tok>>)

Staging(d) == IF InprocName \in DOMAIN fs[d] THEN fs[d][InprocName] ELSE NoFile

\* ------------------------------------------------------------- initial state
\* a fileExporter as the factory's literal leaves it (factory.go lines 50-51),
\* over empty directories, with no call under way
Fresh ==
  /\ currentEventCount = 0
  /\ mutex = NoProc
  /\ dirs = {}
  /\ fs = [d \in Dirs |-> <<>>]
  /\ now = 0
  /\ pc = [p \in Procs |-> "idle"]
  /\ arg = [p \in Procs |-> NoArg]
  /\ entry = [p \in Procs |-> NoEntry]
  /\ failed = [p \in Procs |-> {}]
  /\ err = [p \in Procs |-> FALSE]
  /\ nextId = 1
  /\ crashed = FALSE
  /\ accepted = [d \in Dirs |-> <<>>]
  /\ finalized = [d \in Dirs |-> <<>>]
  /\ seen = [d \in Dirs |-> 0]

\* an engine built from a configuration that Validate accepted
Init ==
  /\ \E c \in Configs :
        /\ fileSizeKb = c.fileSizeKb
        /\ eventsPerFile = c.eventsPerFile
        /\ format = c.format
        /\ cfg = [Path |-> "out", Format |-> c.format,
                  FileSizeKb |-> c.fileSizeKb, EventsPerFile |-> c.eventsPerFile,
                  Default |-> "", state |-> "built"]
  /\ Fresh

\* ------------------------------------------------------------- steps
\* the call fails at step s and returns the error
Fail(p, s) ==
  /\ failed' = [failed EXCEPT ![p] = @ \cup {s}]
  /\ err' = [err EXCEPT ![p] = TRUE]
  /\ pc' = [pc EXCEPT ![p] = "ret"]

Goto(p, l) == pc' = [pc EXCEPT ![p] = l]

\* the sizes of the batches the pipelines submit
BatchSizes == IF fileSizeKb > 0 THEN KbBatchSizes ELSE CountBatchSizes

\* ConsumeTraces / ConsumeMetrics / ConsumeLogs: marshal and call exportAsLine
Consume(p) ==
  /\ pc[p] = "idle" /\ ~crashed
  /\ nextId + Cardinality({q \in Procs : pc[q] = "lock"}) <= MaxBatches
  /\ \E d \in Dirs, s \in BatchSizes :
        arg' = [arg EXCEPT ![p] = [dir |-> d, id |-> 0, sz |-> s]]
  /\ Goto(p, "lock")
  /\ UNCHANGED <<config, currentEventCount, mutex, disk, now, entry, failed, err,
                 nextId, crashed, hist>>

\* a lock that is never waited for
MutexIgnored == TRUE

\* e.mutex.Lock() blocks until no caller holds the mutex
MutexFree == mutex = NoProc

Lock(p) ==
  /\ pc[p] = "lock" /\ ~crashed
  /\ MutexFree
  /\ mutex' = p
  /\ entry' = [entry EXCEPT ![p] = [count |-> currentEventCount,
                                    staging |-> Staging(arg[p].dir),
                                    finals |-> Len(finalized[arg[p].dir])]]
  /\ arg' = [arg EXCEPT ![p].id = nextId]
  /\ nextId' = nextId + 1
  /\ Goto(p, "stat")
  /\ UNCHANGED <<config, currentEventCount, disk, now, failed, err, crashed, hist>>

\* the branch exportAsLine takes after the directory check
Dispatch ==
  IF fileSizeKb > 0 THEN "kb" ELSE IF eventsPerFile > 0 THEN "cnt" ELSE "invalid"

\* os.Stat / os.MkdirAll: a failure to create the directory is only logged
StatDir(p) ==
  /\ pc[p] = "stat" /\ ~crashed
  /\ LET d == arg[p].dir IN
       \/ /\ d \in dirs
          /\ UNCHANGED <<dirs, failed>>
       \/ /\ d \notin dirs
          /\ dirs' = dirs \cup {d}
          /\ UNCHANGED failed
       \/ /\ d \notin dirs
          /\ failed' = [failed EXCEPT ![p] = @ \cup {"mkdir"}]
          /\ UNCHANGED dirs
  /\ IF Dispatch = "invalid"
       THEN /\ err' = [err EXCEPT ![p] = TRUE] /\ Goto(p, "ret")
       ELSE /\ UNCHANGED err /\ Goto(p, Dispatch)
  /\ UNCHANGED <<config, currentEventCount, mutex, fs, now, arg, entry, nextId,
                 crashed, hist>>

\* a decision whose comparison is turned around
ComparisonFlipped(size, msize) == (size \div KB) + msize < fileSizeKb

\* a decision that rotates already when the limit is reached
ExceedsOrEquals(size, msize) == (size \div KB) + msize >= fileSizeKb

\* isFileSizeExceeding: the decision for a staging file of `size` bytes and an
\* incoming batch of msize kilobytes
IsFileSizeExceeding(size, msize) == (size \div KB) + msize > fileSizeKb

\* writeAsPerKb up to the rotation decision (lines 162-172)
WriteAsPerKb(p) ==
  /\ pc[p] = "kb" /\ ~crashed
  /\ LET d == arg[p].dir
         files == Glob(d)
         msize == arg[p].sz \div KB
     IN IF files = {}
          THEN /\ Goto(p, "new")
               /\ UNCHANGED <<failed, err>>
          ELSE \/ Fail(p, "open")
               \/ /\ IF IsFileSizeExceeding(Size(fs[d][InprocName]), msize)
                       THEN Goto(p, "rename")
                       ELSE Goto(p, "append")
                  /\ UNCHANGED <<failed, err>>
  /\ UNCHANGED <<config, currentEventCount, mutex, disk, now, arg, entry, nextId,
                 crashed, hist>>

\* time.Now().UTC(): the wall clock read at a rename, later than every
\* earlier reading; past MaxTime the clock goes on one tick at a time
Times ==
  LET S == {t \in now + 1 .. now + 2 : t <= MaxTime}
  IN IF S = {} THEN {now + 1} ELSE S

\* os.Rename of directory d's staging file at time t succeeded
DoRename(d, t) ==
  /\ InprocName \in DOMAIN fs[d]
  /\ fs' = Renamed(d, InprocName, FinalName(InprocName, t))
  /\ finalized' = [finalized EXCEPT ![d] =
                     Append(@, [name |-> FinalName(InprocName, t),
                                content |-> fs[d][InprocName]])]

\* renameFile, called by writeAsPerKb, which drops the error it returns
RenameFile(p) ==
  /\ pc[p] = "rename" /\ ~crashed
  /\ \E t \in Times :
       /\ now' = t
       /\ \/ /\ DoRename(arg[p].dir, t)
             /\ UNCHANGED failed
          \/ /\ failed' = [failed EXCEPT ![p] = @ \cup {"rename"}]
             /\ UNCHANGED <<fs, finalized>>
  /\ Goto(p, "new")
  /\ UNCHANGED <<config, currentEventCount, mutex, dirs, arg, entry, err, nextId,
                 crashed, accepted, seen>>

\* writeToNewFile: resx.WriteFile creates the file, or truncates the one that
\* exists, and writes buf; when it fails no file is created
WriteToNewFile(p) ==
  /\ pc[p] = "new" /\ ~crashed
  /\ LET d == arg[p].dir IN
       \/ /\ d \in dirs
          /\ fs' = Put(d, InprocName, <<Tok(arg[p])>>)
          /\ Goto(p, "ret")
          /\ UNCHANGED <<failed, err>>
       \/ /\ d \in dirs
          /\ Fail(p, "write")
          /\ UNCHANGED fs
       \/ /\ d \notin dirs
          /\ failed' = [failed EXCEPT ![p] = @ \cup {"write"}]
          /\ err' = [err EXCEPT ![p] = TRUE]
          /\ Goto(p, "ret")
          /\ UNCHANGED fs
  /\ UNCHANGED <<config, currentEventCount, mutex, dirs, now, arg, entry, nextId,
                 crashed, hist>>

\* os.OpenFile(f, O_APPEND|O_CREATE|O_WRONLY) and file.WriteString("\n")
AppendNewline(p) ==
  /\ pc[p] = "append" /\ ~crashed
  /\ \/ /\ fs' = Appended(arg[p].dir, InprocName, NL)
        /\ Goto(p, "buf")
        /\ UNCHANGED <<failed, err>>
     \/ /\ \E s \in {"open", "write"} : Fail(p, s)
        /\ UNCHANGED fs
  /\ UNCHANGED <<config, currentEventCount, mutex, dirs, now, arg, entry, nextId,
                 crashed, hist>>

\* file.Write(buf) and, in writeAsPerEventCount, the increment and the test
\* of the counter (lines 237-243)
AppendBuf(p) ==
  /\ pc[p] = "buf" /\ ~crashed
  /\ \/ /\ fs' = Appended(arg[p].dir, InprocName, Tok(arg[p]))
        /\ IF Dispatch = "kb"
             THEN /\ Goto(p, "ret")
                  /\ UNCHANGED currentEventCount
             ELSE /\ currentEventCount' = currentEventCount + 1
                  /\ IF currentEventCount + 1 = eventsPerFile
                       THEN Goto(p, "close")
                       ELSE Goto(p, "ret")
        /\ UNCHANGED <<failed, err>>
     \/ /\ Fail(p, "write")
        /\ UNCHANGED <<fs, currentEventCount>>
  /\ UNCHANGED <<config, mutex, dirs, now, arg, entry, nextId, crashed,
                 hist>>

\* writeAsPerEventCount up to the lookup of the staging file (lines 209-223)
WriteAsPerEventCount(p) ==
  /\ pc[p] = "cnt" /\ ~crashed
  /\ IF currentEventCount = 0
       THEN /\ currentEventCount' = currentEventCount + 1
            /\ Goto(p, "new")
            /\ UNCHANGED <<crashed, mutex>>
       ELSE IF Glob(arg[p].dir) = {}
         THEN \* files[0] of an empty slice: index out of range
              /\ crashed' = TRUE
              /\ mutex' = NoProc
              /\ Goto(p, "panic")
              /\ UNCHANGED currentEventCount
         ELSE /\ Goto(p, "append")
              /\ UNCHANGED <<currentEventCount, crashed, mutex>>
  /\ UNCHANGED <<config, disk, now, arg, entry, failed, err, nextId, hist>>

\* writeAsPerEventCount once the counter equals eventsPerFile (lines 243-271)
CloseAndRename(p) ==
  /\ pc[p] = "close" /\ ~crashed
  /\ \/ /\ Fail(p, "close")
        /\ UNCHANGED <<now, fs, finalized, currentEventCount>>
     \/ \E t \in Times :
          /\ now' = t
          /\ \/ /\ DoRename(arg[p].dir, t)
                /\ currentEventCount' = 0
                /\ Goto(p, "ret")
                /\ UNCHANGED <<failed, err>>
             \/ /\ Fail(p, "rename")
                /\ UNCHANGED <<fs, finalized, currentEventCount>>
  /\ UNCHANGED <<config, mutex, dirs, arg, entry, nextId, crashed,
                 accepted, seen>>

\* return from exportAsLine: the deferred e.mutex.Unlock() runs
Return(p) ==
  /\ pc[p] = "ret" /\ ~crashed
  /\ mutex' = NoProc
  /\ accepted' = IF err[p] THEN accepted
                 ELSE [accepted EXCEPT ![arg[p].dir] = Append(@, arg[p].id)]
  /\ Goto(p, "idle")
  /\ arg' = [arg EXCEPT ![p] = NoArg]
  /\ entry' = [entry EXCEPT ![p] = NoEntry]
  /\ failed' = [failed EXCEPT ![p] = {}]
  /\ err' = [err EXCEPT ![p] = FALSE]
  /\ seen' = [seen EXCEPT ![arg[p].dir] = currentEventCount]
  /\ UNCHANGED <<config, currentEventCount, disk, now, nextId, crashed, finalized>>

\* the collector process is started again: a new fileExporter (factory.go
\* lines 49-52) over the files the previous process left
Restart ==
  /\ crashed \/ \A p \in Procs : pc[p] = "idle"
  /\ crashed' = FALSE
  /\ currentEventCount' = 0
  /\ mutex' = NoProc
  /\ pc' = [p \in Procs |-> "idle"]
  /\ arg' = [p \in Procs |-> NoArg]
  /\ entry' = [p \in Procs |-> NoEntry]
  /\ failed' = [p \in Procs |-> {}]
  /\ err' = [p \in Procs |-> FALSE]
  /\ seen' = [d \in Dirs |-> 0]
  /\ UNCHANGED <<config, disk, now, nextId, accepted, finalized>>

Next ==
  \/ \E p \in Procs :
       \/ Consume(p) \/ Lock(p) \/ StatDir(p)
       \/ WriteAsPerKb(p) \/ RenameFile(p) \/ WriteToNewFile(p)
       \/ AppendNewline(p) \/ AppendBuf(p)
       \/ WriteAsPerEventCount(p) \/ CloseAndRename(p)
       \/ Return(p)
  \/ Restart

Spec == Init /\ [][Next]_vars

\* the steps of p's call from the lock on
Step(p) ==
  \/ StatDir(p) \/ WriteAsPerKb(p) \/ RenameFile(p) \/ WriteToNewFile(p)
  \/ AppendNewline(p) \/ AppendBuf(p) \/ WriteAsPerEventCount(p)
  \/ CloseAndRename(p) \/ Return(p)

\* fair scheduling: a call that can take a step takes one, and a caller that
\* finds the mutex free again and again gets it (a sync.Mutex hands the lock
\* to a waiter that has waited long)
FairSpec ==
  Spec /\ \A p \in Procs : WF_vars(Step(p)) /\ SF_vars(Lock(p))

\* ------------------------------------------------------------- configuration
\* the values Validate compares with (config.go lines 20-23)
maxfilesize == 100
maxEventsPerFile == 1
fileSize == "fileSizeKb"
eventsSize == "EventsPerFile"

\* the configurations a telem.yaml file can hold
CfgLimits == -1 .. 2
CfgFormats == {"", "json", "JSON", "protobuf", "xml"}
CfgDefaults == {"", "fileSizeKb", "filesizekb", "EventsPerFile", "size"}
CfgPaths == {"", "out"}

\* the lower-case form under which strings.EqualFold compares
Fold(str) ==
  CASE str = "JSON" -> "json"
    [] str = "fileSizeKb" -> "filesizekb"
    [] str = "EventsPerFile" -> "eventsperfile"
    [] OTHER -> str

EqualFold(a, b) == Fold(a) = Fold(b)

\* Config.Validate: the configuration as the call leaves it, with its verdict
Validated(c) ==
  IF \/ c.Path = ""
     \/ c.Format = ""
     \/ ~EqualFold(c.Format, Json) /\ ~EqualFold(c.Format, Protobuf)
     \/ c.FileSizeKb > 0 /\ c.EventsPerFile > 0 /\ c.Default # ""
     \/ c.FileSizeKb > 0 /\ c.EventsPerFile > 0
     \/ c.FileSizeKb > 0 /\ c.Default # ""
     \/ c.Default # "" /\ c.EventsPerFile > 0
     \/ c.FileSizeKb = 0 /\ c.EventsPerFile = 0 /\ c.Default = ""
    THEN [c EXCEPT !.state = "rejected"]
  ELSE IF c.FileSizeKb = 0 /\ c.EventsPerFile = 0
    THEN IF EqualFold(c.Default, fileSize)
           THEN [c EXCEPT !.FileSizeKb = maxfilesize, !.state = "valid"]
         ELSE IF EqualFold(c.Default, eventsSize)
           THEN [c EXCEPT !.EventsPerFile = maxEventsPerFile, !.state = "valid"]
         ELSE [c EXCEPT !.state = "rejected"]
  ELSE [c EXCEPT !.state = "valid"]

\* a configuration as it was read, and no engine yet
InitValidate ==
  /\ cfg \in [Path : CfgPaths, Format : CfgFormats, FileSizeKb : CfgLimits,
               EventsPerFile : CfgLimits, Default : CfgDefaults, state : {"read"}]
  /\ fileSizeKb = 0
  /\ eventsPerFile = 0
  /\ format = ""
  /\ Fresh

Idle == UNCHANGED <<currentEventCount, mutex, disk, now, pc, arg, entry, failed,
                    err, nextId, crashed, hist>>

Validate ==
  /\ cfg.state = "read"
  /\ cfg' = Validated(cfg)
  /\ UNCHANGED <<fileSizeKb, eventsPerFile, format>>
  /\ Idle

\* createTracesExporter, createMetricsExporter, createLogsExporter: the engine
\* takes its fields from the validated configuration
CreateExporter ==
  /\ cfg.state = "valid"
  /\ fileSizeKb' = cfg.FileSizeKb
  /\ eventsPerFile' = cfg.EventsPerFile
  /\ format' = cfg.Format
  /\ cfg' = [cfg EXCEPT !.state = "built"]
  /\ Idle

\* the policy exportAsLine finds in the engine at its first call
ExportAsLine ==
  /\ cfg.state = "built"
  /\ cfg' = [cfg EXCEPT !.state = Dispatch]
  /\ UNCHANGED <<fileSizeKb, eventsPerFile, format>>
  /\ Idle

NextValidate == Validate \/ CreateExporter \/ ExportAsLine

SpecValidate == InitValidate /\ [][NextValidate]_vars

\* ------------------------------------------------------------- properties
\* the labels between e.mutex.Lock() and the return of exportAsLine
Critical == {"stat", "kb", "rename", "new", "append", "buf", "cnt", "close", "ret"}

InCall(p) == pc[p] \in Critical

\* the names of the files of d that bear the staging marker
Marked(d) == {n \in DOMAIN fs[d] : HasMarker(n)}

Last(q) == q[Len(q)]

\* the files finalized so far in d
Finals(d) == {finalized[d][i] : i \in 1 .. Len(finalized[d])}

\* no two batches of c are adjacent, i.e. written without a newline between
Separated(c) == \A i \in 1 .. Len(c) - 1 : ~(c[i].id > 0 /\ c[i + 1].id > 0)

\* C1: in every reachable state, under either policy and any interleaving of
\* callers, each target directory holds at most one file bearing the staging
\* marker.
C1_AtMostOneStaging == \A d \in Dirs : Cardinality(Marked(d)) <= 1

\* a directory holds a staging file next to a finalized one while a second
\* caller waits for the lock
C1_Witness ==
  \E d \in Dirs, p, q \in Procs :
    /\ Cardinality(Marked(d)) = 1
    /\ Cardinality(DOMAIN fs[d]) >= 2
    /\ InCall(p) /\ pc[q] = "lock"

\* C2: under CountLimit(n) every finalized file holds exactly n batches at the
\* moment it is renamed.
C2_ExactlyN ==
  eventsPerFile > 0 =>
    \A d \in Dirs : \A r \in Finals(d) : Len(Batches(r.content)) = eventsPerFile

\* C3: under CountLimit(1) the accept call that wrote a batch finalizes it as a
\* file of its own and leaves no staging file holding a batch.
C3_OneFilePerBatch ==
  eventsPerFile = 1 =>
    \A p \in Procs :
      (pc[p] = "ret" /\ ~err[p]) =>
        /\ finalized[arg[p].dir] # <<>>
        /\ Batches(Last(finalized[arg[p].dir]).content) = <<arg[p].id>>
        /\ Batches(Staging(arg[p].dir)) = <<>>

\* C4: under SizeLimit(k) no finalized file is larger than k*1024 bytes,
\* newlines included, when it is finalized, unless its content is one batch
\* that is itself larger than k kilobytes.
C4_WithinLimit ==
  fileSizeKb > 0 =>
    \A d \in Dirs : \A r \in Finals(d) :
      \/ Size(r.content) <= fileSizeKb * KB
      \/ Len(r.content) = 1 /\ r.content[1].sz > fileSizeKb * KB

\* an accept call of a 12 KB batch under SizeLimit(10) that found no staging
\* file, or one of zero bytes, has done its work and returns nil
OversizedOnEmpty(p) ==
  /\ fileSizeKb = 10
  /\ pc[p] = "ret" /\ ~err[p]
  /\ arg[p].sz = 12 * KB
  /\ Size(entry[p].staging) = 0

\* C5: under SizeLimit(10) with an empty staging file, accepting a batch of
\* 12 KB immediately produces one finalized file holding that batch, and the
\* staging file that follows starts empty.
C5_FinalizedAtOnce ==
  \A p \in Procs :
    OversizedOnEmpty(p) =>
      /\ finalized[arg[p].dir] # <<>>
      /\ Batches(Last(finalized[arg[p].dir]).content) = <<arg[p].id>>
      /\ Batches(Staging(arg[p].dir)) = <<>>

\* C5, amended: under SizeLimit(10) with an empty staging file, accepting a
\* batch of 12 KB finalizes no file holding it: the batch is the whole content
\* of the staging file when the call returns, and it stays alone there, since
\* no call appends to a staging file whose size already exceeds the limit.
C5_StagedWhole ==
  /\ \A p \in Procs :
       OversizedOnEmpty(p) =>
         /\ Staging(arg[p].dir) = <<Tok(arg[p])>>
         /\ \A r \in Finals(arg[p].dir) : arg[p].id \notin
              {r.content[i].id : i \in 1 .. Len(r.content)}
  /\ \A p \in Procs :
       (fileSizeKb > 0 /\ pc[p] \in {"append", "buf"}) =>
         Size(entry[p].staging) \div KB <= fileSizeKb

C5_Witness == \E p \in Procs : OversizedOnEmpty(p)

\* C6: calls on one engine exclude each other from lock acquisition to return,
\* so no file holds two batches written without the newline between them.
C6_MutualExclusion ==
  /\ Cardinality({p \in Procs : InCall(p)}) <= 1
  /\ \A p \in Procs : InCall(p) => mutex = p
  /\ \A d \in Dirs : \A n \in DOMAIN fs[d] : Separated(fs[d][n])

\* one caller appends to the staging file of a directory while the other
\* waits for the lock with a batch for the same directory
C6_Witness ==
  \E p, q \in Procs :
    /\ pc[p] = "buf" /\ pc[q] = "lock"
    /\ arg[p].dir = arg[q].dir

\* no call for directory d holds the lock
Quiet(d) == ~crashed /\ \A p \in Procs : InCall(p) => arg[p].dir # d

\* the batches of the finalized files of d, in finalization order
RECURSIVE FinalizedBatches(_)
FinalizedBatches(q) ==
  IF q = <<>> THEN <<>> ELSE Batches(Head(q).content) \o FinalizedBatches(Tail(q))

\* each batch of c is separated from the next batch by exactly one newline
OneNewlineBetween(c) ==
  \A i, j \in 1 .. Len(c) :
    (/\ i < j /\ c[i].id > 0 /\ c[j].id > 0
     /\ \A k \in i + 1 .. j - 1 : c[k].id = 0) => j = i + 2

\* C7: for one directory, the batches of the finalized files, in finalization
\* order, then those of the staging file, each separated from the next by one
\* newline, are exactly the accepted batches in lock order.
C7_InLockOrder ==
  \A d \in Dirs :
    Quiet(d) =>
      /\ FinalizedBatches(finalized[d]) \o Batches(Staging(d)) = accepted[d]
      /\ \A n \in DOMAIN fs[d] : OneNewlineBetween(fs[d][n])

\* C8: when the create, open or write step of a call fails, the call returns
\* an error, currentEventCount is what it was before the call, and no staging
\* file exists that did not exist before.
C8_FailureChangesNothing ==
  \A p \in Procs :
    (pc[p] = "ret" /\ failed[p] \cap {"open", "write"} # {}) =>
      /\ err[p]
      /\ currentEventCount = entry[p].count
      /\ entry[p].staging = NoFile => Glob(arg[p].dir) = {}

\* c holds the batches of b, in order, from its start
HoldsAll(c, b) ==
  /\ Len(Batches(b)) <= Len(Batches(c))
  /\ SubSeq(Batches(c), 1, Len(Batches(b))) = Batches(b)

\* C9: when the rename of a finalize fails, under either policy, the call
\* reports the failure, the staging file still holds every batch it held, and
\* the batch that triggered the rotation is not dropped.
C9_RenameFailureReported ==
  \A p \in Procs :
    (pc[p] = "ret" /\ "rename" \in failed[p]) =>
      /\ err[p]
      /\ HoldsAll(Staging(arg[p].dir), entry[p].staging)
      /\ \E d \in Dirs : \E n \in DOMAIN fs[d] :
           \E i \in 1 .. Len(fs[d][n]) : fs[d][n][i].id = arg[p].id

\* C10: the names of the files finalized in one directory are strictly
\* increasing in call order, so no two finalizations produce the same name.
C10_NamesIncrease ==
  \A d \in Dirs : \A i, j \in 1 .. Len(finalized[d]) :
    i < j => finalized[d][i].name.stamp < finalized[d][j].name.stamp

\* batch id is part of the content of some file of some directory
OnDisk(id) ==
  \E d \in Dirs : \E n \in DOMAIN fs[d] :
    \E i \in 1 .. Len(fs[d][n]) : fs[d][n][i].id = id

\* C11: once a staging file has been renamed to its finalized name, no later
\* accept call changes that file: every file ever finalized is on disk under
\* the name it was given, with the content it was renamed with.
C11_FinalizedUntouched ==
  \A d \in Dirs : \A r \in Finals(d) :
    /\ r.name \in DOMAIN fs[d]
    /\ fs[d][r.name] = r.content

\* C12: when the target directory does not exist and creating it fails, the
\* call reports a failure, its batch is in no file and currentEventCount is
\* what it was before the call.
C12_MkdirFailureRejects ==
  \A p \in Procs :
    (pc[p] = "ret" /\ "mkdir" \in failed[p]) =>
      /\ err[p]
      /\ ~OnDisk(arg[p].id)
      /\ currentEventCount = entry[p].count

\* C13: under CountLimit(n) the event count is kept per directory: a call for
\* one directory finds the count that the last call for the same directory
\* left, whatever calls for other directories came in between.
C13_CountPerDirectory ==
  eventsPerFile > 0 =>
    \A p \in Procs : InCall(p) => entry[p].count = seen[arg[p].dir]

\* a call under the size policy in which no step failed has done its work
KbDone(p) == fileSizeKb > 0 /\ pc[p] = "ret" /\ failed[p] = {}

C15_RetriesFinalize ==
  \A p \in Procs :
    (/\ eventsPerFile >= 2
     /\ pc[p] = "ret" /\ failed[p] = {} /\ ~err[p]
     /\ entry[p].count = eventsPerFile
     /\ entry[p].staging # NoFile
     /\ Len(Batches(entry[p].staging)) >= eventsPerFile) =>
       /\ Len(finalized[arg[p].dir]) > entry[p].finals
       /\ Len(Batches(Staging(arg[p].dir))) < eventsPerFile

\* C16: calls for different directories share no lock: a call that waits for
\* the lock while no call for its own directory is in its critical section
\* finds the lock free.
C16_NoSharedLock ==
  \A p \in Procs :
    (/\ pc[p] = "lock"
     /\ \A q \in Procs : InCall(q) => arg[q].dir # arg[p].dir) =>
       mutex = NoProc

\* C16, amended: the engine has one lock for all its directories: while a call
\* is in its critical section, a call for any other directory that is under
\* way waits for the lock, which the first call holds.
C16_OneLockForAllDirectories ==
  \A p, q \in Procs :
    (InCall(p) /\ pc[q] # "idle" /\ arg[q].dir # arg[p].dir) =>
      pc[q] = "lock" /\ mutex = p

\* a call for one directory writes while a call for the other one waits
C16_Witness ==
  \E p, q \in Procs :
    /\ pc[p] \in {"new", "buf"} /\ pc[q] = "lock"
    /\ arg[p].dir # arg[q].dir

\* C17: a configuration that Validate accepted has exactly one of FileSizeKb
\* and EventsPerFile positive, and the engine built from it never finds
\* neither limit defined.
C17_OneLimitAfterValidate ==
  /\ cfg.state \in {"valid", "built"} =>
       (cfg.FileSizeKb > 0) # (cfg.EventsPerFile > 0)
  /\ cfg.state # "invalid"

\* the number of places at which batch id stands in the files of directory d
Copies(d, id) ==
  Cardinality(UNION {{<<n, i>> : i \in {j \in 1 .. Len(fs[d][n]) :
                                             fs[d][n][j].id = id}} :
                       n \in DOMAIN fs[d]})

\* C18: no accepted batch is ever lost: every batch whose call returned nil
\* is in exactly one file of its directory, once, in every later state.
C18_NoAcceptedBatchLost ==
  \A d \in Dirs : \A k \in 1 .. Len(accepted[d]) :
    Copies(d, accepted[d][k]) = 1

\* C19: writeAsPerEventCount never indexes an empty lookup result: no call
\* aborts with an index-out-of-range fault.
C19_NoIndexOutOfRange ==
  /\ ~crashed
  /\ \A p \in Procs :
       (pc[p] = "cnt" /\ currentEventCount > 0) => Glob(arg[p].dir) # {}

\* C20: every call releases the lock on every path, so the lock is held only
\* by a call in its critical section, and under fair scheduling every caller
\* that waits for the lock acquires it.
C20_EveryWaiterAcquires ==
  /\ [](\A p \in Procs : mutex = p => InCall(p))
  /\ \A p \in Procs : (pc[p] = "lock") ~> (pc[p] = "stat")
====
